---- MODULE Spec2Model ----
(***************************************************************************)
(* Mobile-Sensors: the client Connection Manager (lib/useWebSocket.ts),    *)
(* the broadcast relay (server.mjs) and the polling store                  *)
(* (app/api/sensor/route.ts), each as a state machine.                     *)
(***************************************************************************)
EXTENDS Integers, Sequences, FiniteSets, TLC

\* ------------------------------------------------------------------ bounds
MaxSockets == 3   \* sockets one manager instance may create in a run
MaxSends == 1     \* send() calls in a run
MaxConns == 3     \* connections the relay accepts in a run
MaxMsgs == 1      \* messages the relay receives in a run
MaxPeers == 2     \* connections in the runs that look at message order
MaxBurst == 2     \* messages the relay receives in those runs
MaxTicks == 3     \* clock advances between requests in a run
MaxInflight == 2  \* requests of one timer that are in flight together
MaxFails == 2     \* consecutive failed requests of one timer that are counted
MaxCalls == 4     \* filter() calls on one filter in a run
MaxArrivals == 2  \* message events of the manager's sockets in a run
MaxIssued == 3    \* requests one timer starts in a run
MaxApplies == 3   \* filter() calls on the adaptive filter in a run
MaxEvents == 3    \* sensor events a sender page handles in a run
MaxChanges == 5   \* setStatus calls seen by the WebSocket sender page in a run

VARIABLES
  \* --- Connection Manager (useWebSocket)
  wsRef,        \* wsRef.current: Null or the id of the held socket
  status,       \* the React state "status"
  readyState,   \* readyState of every socket the manager created
  sockUrl,      \* the url each socket was constructed with
  nSock,        \* number of sockets constructed so far
  wire,         \* what ws.send() handed to the transport, in order
  sendLog,      \* the status each send() call saw, one entry per call
  thrown,       \* hook operations out of which an exception escaped
  lastOp,       \* the operation or event handled last, with what it saw
  \* --- Broadcast Relay (server.mjs)
  clients,      \* the Set "clients", in insertion order
  connState,    \* readyState of every server-side socket
  inbox,        \* the frames each connection was sent by the relay, in order
  relayLog,     \* the messages the relay received, with the set as it then was
  removedAt,    \* per connection: messages received before its first close or
                \* error event, or Never
  \* --- Ephemeral Keyed Store (app/api/sensor/route.ts)
  store,        \* the Map "store": key -> entry or NoEntry
  clock,        \* Date.now()
  nTicks,       \* number of times the clock advanced between requests
  puts,         \* per key, the body and time of the last accepted write
  lastReq,      \* the request handled since the clock last advanced, if any
  onMessage,    \* useWebSocket was called with a consumer callback
  arrived,      \* the message events of the sockets, oldest first
  consumed,     \* the calls of the consumer callback, oldest first
  wrote,        \* the body and time of the last accepted write, room as sent
  asked,        \* the room parameter of the last read, as sent
  \* --- Message codec (lib/types.ts) between the sending and the receiving page
  cSent,        \* the sample the sender encoded last, or NoSample
  cText,        \* the text encoded or received last
  cPkt,         \* what parseSensorMessage returned at the last onMessage
  cThrew,       \* whether an exception escaped parseSensorMessage there
  rx,           \* rawPitch.current and fireRef.current of the receiving page
  rxBefore,     \* rx before the last onMessage
  cOp,          \* the codec step taken last
  \* --- Send timer (app/mobile/page.tsx) and poll timer (app/pc/page.tsx)
  pc,           \* refs and React state of the PC page
  lastPoll,     \* the poll that settled last, with the page state before it
  pollFlight,   \* polls started and not yet settled
  pcMounted,    \* the poll timer is running
  sendFlight,   \* POSTs started and not yet settled
  mobConnected, \* the React state "connected" of the mobile page
  mobMounted,   \* the send timer is running
  pollFails,    \* polls that failed since the last answered one, up to MaxFails
  sendFails,    \* POSTs that failed since the last resolved one, up to MaxFails
  unhandled,    \* an exception left a timer callback
  \* --- requests of the two timers on their way to and from the store
  flights,      \* the requests that have not settled, each with its issue number
  issued,       \* the requests each timer has started so far
  shown,        \* the issue number of the poll whose answer the PC page shows
  stored,       \* the issue number of the send whose body the store holds
  \* --- LowPassFilter
  fAlpha,       \* this.alpha
  fValue,       \* this.value
  fBefore,      \* this.value before the last filter() call
  fIn,          \* the input of the last filter() call
  fCalls,       \* filter() calls so far
  fRun,         \* the last calls that had the same input as the last one
  \* --- OneEuroFilter
  euro,         \* x, dx and lastTime of the filter
  eLast,        \* the last filter() call: input, output, dt and coefficients
  twin,         \* a filter created at the last reset() and fed the same calls
  eCalls,       \* filter() calls so far
  \* --- WebSocket sender page: the send loop
  loop,         \* hookStatus: the status state of useWebSocket (last setStatus);
                \* rendered: the status of the page's last committed render;
                \* sendTimerRef: sendTimerRef.current, NoTimer or an interval id;
                \* intervals: the intervals that exist in the browser;
                \* nIntervals: intervals created so far; wsMounted: the page is
                \* mounted; nChanges: setStatus calls so far; ticked: the
                \* rendered statuses under which the send timer has fired
  \* --- sender pages: sensor handlers
  aim           \* kind: which sender page has motion enabled, or "none";
                \* now: performance.now(), tenths of a millisecond;
                \* pitchRef, rollRef, yawAccumulator, lastGyroTime, alphaRef:
                \* the refs of the page; pitchEuro, yawEuro: the filters of
                \* the gyro page; pitchLow, rollLow: the values of the filters
                \* of the tilt page; sent: the last body a send timer built;
                \* nEvents: sensor events handled so far

connVars == <<wsRef, status, readyState, sockUrl, nSock, wire, sendLog, thrown, lastOp>>
inVars == <<onMessage, arrived, consumed>>
relayVars == <<clients, connState, inbox, relayLog, removedAt>>
storeVars == <<store, clock, nTicks, puts, lastReq>>
codecVars == <<cSent, cText, cPkt, cThrew, rx, rxBefore, cOp>>
timerVars == <<pc, lastPoll, pollFlight, pcMounted, sendFlight, mobConnected, mobMounted,
              pollFails, sendFails, unhandled>>
roomVars == <<wrote, asked>>
raceVars == <<flights, issued, shown, stored>>
filterVars == <<fAlpha, fValue, fBefore, fIn, fCalls, fRun>>
euroVars == <<euro, eLast, twin, eCalls>>
aimVars == <<aim>>
loopVars == <<loop>>
vars == <<connVars, inVars, relayVars, storeVars, roomVars, codecVars, timerVars, raceVars,
         filterVars, euroVars, loopVars, aimVars>>
notConn == <<inVars, relayVars, storeVars, roomVars, codecVars, timerVars, raceVars, filterVars, euroVars, loopVars, aimVars>>
notConnIn == <<relayVars, storeVars, roomVars, codecVars, timerVars, raceVars, filterVars, euroVars, loopVars, aimVars>>
notRelay == <<connVars, inVars, storeVars, roomVars, codecVars, timerVars, raceVars, filterVars, euroVars, loopVars, aimVars>>
notStore == <<connVars, inVars, relayVars, codecVars, timerVars, raceVars, filterVars, euroVars, loopVars, aimVars>>
notCodec == <<connVars, inVars, relayVars, storeVars, roomVars, timerVars, raceVars, filterVars, euroVars, loopVars, aimVars>>
notTimers == <<connVars, inVars, relayVars, storeVars, roomVars, codecVars, filterVars, euroVars, loopVars, aimVars>>
notFilter == <<connVars, inVars, relayVars, storeVars, roomVars, codecVars, timerVars, raceVars, euroVars, loopVars, aimVars>>
notRace == <<connVars, inVars, relayVars, roomVars, codecVars, filterVars, euroVars, loopVars, aimVars>>
notEuro == <<connVars, inVars, relayVars, storeVars, roomVars, codecVars, timerVars, raceVars,
            filterVars, loopVars, aimVars>>
notLoop == <<connVars, inVars, relayVars, storeVars, roomVars, codecVars, timerVars, raceVars,
            filterVars, euroVars, aimVars>>
notAim == <<connVars, inVars, relayVars, storeVars, roomVars, codecVars, timerVars, raceVars,
           filterVars, euroVars, loopVars>>

\* ------------------------------------------------------- Connection Manager
Null == 0
SockIds == 1..MaxSockets

\* urls are sequences of characters, so that startsWith is computed
Scheme == <<"w", "s", "s", ":", "/", "/">>
UrlWssA == <<"w", "s", "s", ":", "/", "/", "a">>
UrlWssBare == <<"w", "s", "s", ":", "/", "/">>
UrlWsA == <<"w", "s", ":", "/", "/", "a">>
UrlUpper == <<"W", "S", "S", ":", "/", "/", "a">>
UrlShort == <<"w", "s", "s">>
Urls == {UrlWssA, UrlWssBare, UrlWsA, UrlUpper, UrlShort}
Datas == {"d1", "d2"}

\* String.prototype.startsWith
StartsWith(s, p) == Len(s) >= Len(p) /\ SubSeq(s, 1, Len(p)) = p

\* new WebSocket(url) throws SyntaxError when the url does not parse: a url
\* parses when a non-empty host follows its "://"
ParsesAsUrl(url) ==
  \E i \in 1..Len(url) :
    /\ i + 2 < Len(url)
    /\ SubSeq(url, i, i + 2) = <<":", "/", "/">>

\* WebSocket.close(): a connecting or open socket starts closing, a closing or
\* closed one is left as it is
CloseSocket(rs, s) ==
  IF rs[s] \in {"CONNECTING", "OPEN"} THEN [rs EXCEPT ![s] = "CLOSING"] ELSE rs

\* what an operation or event saw when it started
Saw(op, arg) == [op |-> op, arg |-> arg, held |-> wsRef, pst |-> status]

SchemeOkLoose(url) == StartsWith(url, <<"w", "s">>)

\* the scheme test of connect
SchemeOk(url) == StartsWith(url, Scheme)

\* connect(url)
Connect(url) ==
  LET rs1 == IF wsRef # Null THEN CloseSocket(readyState, wsRef) ELSE readyState
  IN  /\ lastOp' = Saw("connect", url)
      /\ UNCHANGED notConn
      /\ IF ~SchemeOk(url)
         THEN /\ wsRef' = Null
              /\ readyState' = rs1
              /\ UNCHANGED <<status, sockUrl, nSock, wire, sendLog, thrown>>
         ELSE IF ~ParsesAsUrl(url)
         THEN /\ wsRef' = Null
              /\ readyState' = rs1
              /\ status' = "connecting"
              /\ thrown' = thrown \cup {"connect"}
              /\ UNCHANGED <<sockUrl, nSock, wire, sendLog>>
         ELSE /\ nSock < MaxSockets
              /\ status' = "connecting"
              /\ nSock' = nSock + 1
              /\ readyState' = [rs1 EXCEPT ![nSock + 1] = "CONNECTING"]
              /\ sockUrl' = [sockUrl EXCEPT ![nSock + 1] = url]
              /\ wsRef' = nSock + 1
              /\ UNCHANGED <<wire, sendLog, thrown>>

DisconnectKeepsRef ==
  /\ lastOp' = Saw("disconnect", Null)
  /\ UNCHANGED notConn
  /\ readyState' = IF wsRef # Null THEN CloseSocket(readyState, wsRef) ELSE readyState
  /\ status' = "disconnected"
  /\ UNCHANGED <<wsRef, sockUrl, nSock, wire, sendLog, thrown>>

\* disconnect()
Disconnect ==
  /\ lastOp' = Saw("disconnect", Null)
  /\ UNCHANGED notConn
  /\ readyState' = IF wsRef # Null THEN CloseSocket(readyState, wsRef) ELSE readyState
  /\ wsRef' = Null
  /\ status' = "disconnected"
  /\ UNCHANGED <<sockUrl, nSock, wire, sendLog, thrown>>

SendGuardNoReadyState == wsRef # Null

\* the guard of send()
SendGuard == wsRef # Null /\ readyState[wsRef] = "OPEN"

\* send(data). WebSocket.send() throws on a socket that is still connecting,
\* transmits on an open one and discards on a closing or closed one.
Send(d) ==
  /\ Len(sendLog) < MaxSends
  /\ lastOp' = Saw("send", d)
  /\ UNCHANGED notConn
  /\ sendLog' = Append(sendLog, status)
  /\ IF SendGuard
     THEN CASE readyState[wsRef] = "CONNECTING" ->
                 thrown' = thrown \cup {"send"} /\ wire' = wire
            [] readyState[wsRef] = "OPEN" ->
                 /\ wire' = Append(wire, [sock |-> wsRef, data |-> d,
                                          call |-> Len(sendLog) + 1])
                 /\ thrown' = thrown
            [] OTHER -> UNCHANGED <<wire, thrown>>
     ELSE UNCHANGED <<wire, thrown>>
  /\ UNCHANGED <<wsRef, status, readyState, sockUrl, nSock>>

\* the open event of socket s: ws.onopen (the handlers stay attached to a
\* socket the manager no longer holds)
TransportOpen(s) ==
  /\ readyState[s] = "CONNECTING"
  /\ lastOp' = Saw("open", s)
  /\ UNCHANGED notConn
  /\ readyState' = [readyState EXCEPT ![s] = "OPEN"]
  /\ status' = "connected"
  /\ UNCHANGED <<wsRef, sockUrl, nSock, wire, sendLog, thrown>>

OnCloseKeepsRef(s) ==
  /\ status' = "disconnected"
  /\ UNCHANGED wsRef

\* ws.onclose
OnClose(s) ==
  /\ status' = "disconnected"
  /\ wsRef' = Null

\* the close event of socket s
TransportClose(s) ==
  /\ readyState[s] \in {"OPEN", "CLOSING"}
  /\ lastOp' = Saw("close", s)
  /\ UNCHANGED notConn
  /\ readyState' = [readyState EXCEPT ![s] = "CLOSED"]
  /\ OnClose(s)
  /\ UNCHANGED <<sockUrl, nSock, wire, sendLog, thrown>>

\* ws.onerror
OnError(s) ==
  /\ status' = "disconnected"
  /\ readyState' = CloseSocket([readyState EXCEPT ![s] = "CLOSED"], s)
  /\ wsRef' = Null

\* a transport failure of socket s: the socket is closed, the error event runs
\* ws.onerror and the close event that follows it runs ws.onclose
TransportError(s) ==
  /\ readyState[s] \in {"CONNECTING", "OPEN", "CLOSING"}
  /\ lastOp' = Saw("error", s)
  /\ UNCHANGED notConn
  /\ OnError(s)
  /\ OnClose(s)
  /\ UNCHANGED <<sockUrl, nSock, wire, sendLog, thrown>>

\* the hook is called with a consumer callback (the PC page) before its first
\* connect; without one (the mobile page) connect attaches no message handler
UseConsumer ==
  /\ ~onMessage /\ nSock = 0
  /\ onMessage' = TRUE
  /\ UNCHANGED <<arrived, consumed>>
  /\ UNCHANGED connVars
  /\ UNCHANGED notConnIn

DispatchNewestFirst(calls, n, data) == <<[n |-> n, data |-> data]>> \o calls

\* ws.onmessage = (e) => onMessage(e.data): the consumer is called with the
\* data of message event number n
Dispatch(calls, n, data) == Append(calls, [n |-> n, data |-> data])

\* a message event of socket s: a socket dispatches message events only while
\* it is open
TransportMessage(s, d) ==
  /\ readyState[s] = "OPEN"
  /\ Len(arrived) < MaxArrivals
  /\ arrived' = Append(arrived, [sock |-> s, data |-> d, held |-> wsRef = s])
  /\ consumed' = IF onMessage THEN Dispatch(consumed, Len(arrived) + 1, d)
                 ELSE consumed
  /\ UNCHANGED onMessage
  /\ UNCHANGED connVars
  /\ UNCHANGED notConnIn

\* handleConnect of the pages: the Connect/Disconnect button
HandleConnect(url) ==
  IF status = "connected"
  THEN Disconnect
  ELSE IF ~StartsWith(url, Scheme)
       THEN /\ lastOp' = Saw("alert", url)
            /\ UNCHANGED <<wsRef, status, readyState, sockUrl, nSock, wire, sendLog, thrown>>
            /\ UNCHANGED notConn
       ELSE Connect(url)

ConnInit ==
  /\ wsRef = Null
  /\ status = "disconnected"
  /\ readyState = [s \in SockIds |-> "NONE"]
  /\ sockUrl = [s \in SockIds |-> <<>>]
  /\ nSock = 0
  /\ wire = <<>>
  /\ sendLog = <<>>
  /\ thrown = {}
  /\ lastOp = [op |-> "none", arg |-> Null, held |-> Null, pst |-> "disconnected"]
  /\ onMessage = FALSE
  /\ arrived = <<>>
  /\ consumed = <<>>

InboundNext ==
  \/ UseConsumer
  \/ \E url \in {UrlWssA, UrlWsA} : Connect(url)
  \/ Disconnect
  \/ \E s \in SockIds : TransportOpen(s)
  \/ \E s \in SockIds : TransportClose(s)
  \/ \E s \in SockIds : TransportError(s)
  \/ \E s \in SockIds, d \in Datas : TransportMessage(s, d)

ConnNext ==
  \/ \E url \in Urls : Connect(url)
  \/ Disconnect
  \/ \E d \in Datas : Send(d)
  \/ \E s \in SockIds : TransportOpen(s)
  \/ \E s \in SockIds : TransportClose(s)
  \/ \E s \in SockIds : TransportError(s)
  \/ \E url \in Urls : HandleConnect(url)

\* ----------------------------------------------------------- Broadcast Relay
Conns == 1..MaxConns

\* frames as the transport carries them: a text or binary opcode and the
\* payload bytes. 65 is ASCII, 255 occurs in no UTF-8 encoding; a text
\* frame that is not UTF-8 never reaches the message handler.
TextA == [binary |-> FALSE, bytes |-> <<65>>]
BinFF == [binary |-> TRUE, bytes |-> <<65, 255>>]
Frames == {TextA, BinFF}

\* data.toString(): the bytes decoded as UTF-8 into code points, a byte that
\* is no UTF-8 decoded as U+FFFD
BufferToString(bytes) ==
  [i \in 1..Len(bytes) |-> IF bytes[i] < 128 THEN bytes[i] ELSE 65533]

\* the UTF-8 encoding of a string of the code points above
RECURSIVE Utf8(_)
Utf8(str) ==
  IF str = <<>> THEN <<>>
  ELSE (IF Head(str) < 128 THEN <<Head(str)>> ELSE <<239, 191, 189>>) \o Utf8(Tail(str))

\* client.send(msg) with a string: a text frame of its UTF-8 encoding
SendString(msg) == [binary |-> FALSE, bytes |-> Utf8(msg)]

\* Set.prototype.add / delete on the insertion-ordered set
SetAdd(set, c) == IF \E i \in 1..Len(set) : set[i] = c THEN set ELSE Append(set, c)
SetDelete(set, c) == SelectSeq(set, LAMBDA x : x # c)
Members(set) == {set[i] : i \in 1..Len(set)}

RecipientEchoes(client, ws) == connState[client] = "OPEN"

\* the test of the broadcast loop: client !== ws && client.readyState === 1
Recipient(client, ws) == client # ws /\ connState[client] = "OPEN"

RECURSIVE ForwardStopsAtClosed(_, _, _, _)
ForwardStopsAtClosed(inb, set, ws, entry) ==
  IF set = <<>> THEN inb
  ELSE IF Head(set) # ws /\ connState[Head(set)] # "OPEN" THEN inb
  ELSE ForwardStopsAtClosed(
         IF Recipient(Head(set), ws)
         THEN [inb EXCEPT ![Head(set)] = Append(@, entry)] ELSE inb,
         Tail(set), ws, entry)

\* the broadcast loop: for (const client of clients) ... client.send(msg)
RECURSIVE Forward(_, _, _, _)
Forward(inb, set, ws, entry) ==
  IF set = <<>> THEN inb
  ELSE Forward(
         IF Recipient(Head(set), ws)
         THEN [inb EXCEPT ![Head(set)] = Append(@, entry)] ELSE inb,
         Tail(set), ws, entry)

\* wss.on("connection"); connections are numbered in the order they are accepted
Connection(c) ==
  /\ connState[c] = "NONE"
  /\ \A b \in Conns : b < c => connState[b] # "NONE"
  /\ connState' = [connState EXCEPT ![c] = "OPEN"]
  /\ clients' = SetAdd(clients, c)
  /\ UNCHANGED <<inbox, relayLog, removedAt>>
  /\ UNCHANGED notRelay

MessageNewestFirst(c, f) ==
  /\ connState[c] = "OPEN"
  /\ LET msg == BufferToString(f.bytes)
         id == Len(relayLog) + 1
         entry == [id |-> id, from |-> c, frame |-> SendString(msg)]
     IN  /\ inbox' = [b \in Conns |->
                       IF b \in Members(clients) /\ Recipient(b, c)
                       THEN <<entry>> \o inbox[b] ELSE inbox[b]]
         /\ relayLog' = Append(relayLog,
              [from |-> c, frame |-> f, set |-> Members(clients),
               open |-> {d \in Members(clients) \ {c} : connState[d] = "OPEN"}])
  /\ UNCHANGED <<clients, connState, removedAt>>
  /\ UNCHANGED notRelay

\* ws.on("message") of connection c
Message(c, f) ==
  /\ connState[c] = "OPEN"
  /\ LET msg == BufferToString(f.bytes)
         id == Len(relayLog) + 1
     IN  /\ inbox' = Forward(inbox, clients, c,
                             [id |-> id, from |-> c, frame |-> SendString(msg)])
         /\ relayLog' = Append(relayLog,
              [from |-> c, frame |-> f, set |-> Members(clients),
               open |-> {d \in Members(clients) \ {c} : connState[d] = "OPEN"}])
  /\ UNCHANGED <<clients, connState, removedAt>>
  /\ UNCHANGED notRelay

\* the peer or the transport of c starts closing; its close event is still to
\* be dispatched, so c is still in the set
PeerClosing(c) ==
  /\ connState[c] = "OPEN"
  /\ connState' = [connState EXCEPT ![c] = "CLOSING"]
  /\ UNCHANGED <<clients, inbox, relayLog, removedAt>>
  /\ UNCHANGED notRelay

Never == 0 - 1

\* the first close or error event of c is noted with the messages received so far
Removed(c) ==
  removedAt' = [removedAt EXCEPT ![c] = IF @ = Never THEN Len(relayLog) ELSE @]

CloseKeepsMember(c) ==
  /\ connState[c] \in {"OPEN", "CLOSING"}
  /\ connState' = [connState EXCEPT ![c] = "CLOSED"]
  /\ Removed(c)
  /\ UNCHANGED <<clients, inbox, relayLog>>
  /\ UNCHANGED notRelay

\* ws.on("close") of connection c
Close(c) ==
  /\ connState[c] \in {"OPEN", "CLOSING"}
  /\ connState' = [connState EXCEPT ![c] = "CLOSED"]
  /\ clients' = SetDelete(clients, c)
  /\ Removed(c)
  /\ UNCHANGED <<inbox, relayLog>>
  /\ UNCHANGED notRelay

ErrorStaysOpen(c) ==
  /\ connState[c] \in {"OPEN", "CLOSING"}
  /\ clients' = SetDelete(clients, c)
  /\ Removed(c)
  /\ UNCHANGED <<connState, inbox, relayLog>>
  /\ UNCHANGED notRelay

ErrorKeepsMember(c) ==
  /\ connState[c] \in {"OPEN", "CLOSING"}
  /\ connState' = [connState EXCEPT ![c] = "CLOSING"]
  /\ Removed(c)
  /\ UNCHANGED <<clients, inbox, relayLog>>
  /\ UNCHANGED notRelay

\* ws.on("error") of connection c. The ws library has started the closing
\* handshake of c when it emits "error"; the close event of c follows later.
Error(c) ==
  /\ connState[c] \in {"OPEN", "CLOSING"}
  /\ connState' = [connState EXCEPT ![c] = "CLOSING"]
  /\ clients' = SetDelete(clients, c)
  /\ Removed(c)
  /\ UNCHANGED <<inbox, relayLog>>
  /\ UNCHANGED notRelay

RelayInit ==
  /\ clients = <<>>
  /\ connState = [c \in Conns |-> "NONE"]
  /\ inbox = [c \in Conns |-> <<>>]
  /\ relayLog = <<>>
  /\ removedAt = [c \in Conns |-> Never]

\* a message arrives while the run has messages left
RelayMessage(c, f) == Len(relayLog) < MaxMsgs /\ Message(c, f)

RelayNext ==
  \/ \E c \in Conns : Connection(c)
  \/ \E c \in Conns, f \in Frames : RelayMessage(c, f)
  \/ \E c \in Conns : PeerClosing(c)
  \/ \E c \in Conns : Close(c)
  \/ \E c \in Conns : Error(c)

\* the relay with fewer connections and more messages
Peers == 1..MaxPeers

OrderMessage(c, f) == Len(relayLog) < MaxBurst /\ Message(c, f)

OrderNext ==
  \/ \E c \in Peers : Connection(c)
  \/ \E c \in Peers, f \in Frames : OrderMessage(c, f)
  \/ \E c \in Peers : PeerClosing(c)
  \/ \E c \in Peers : Close(c)
  \/ \E c \in Peers : Error(c)


\* ------------------------------------------------------- Ephemeral Keyed Store
FreshMs == 2000       \* GET: Date.now() - data.timestamp > 2000
RetainMs == 5000      \* cleanOldData: now - data.timestamp > 5000

Absent == "absent"    \* a room field or parameter that is not there
Missing == <<>>       \* a numeric field that is not there; <<v>> is the number v
NoEntry == [none |-> TRUE]
Keys == {"default", "r1"}
BodyRooms == {Absent, "r1"}
Params == {Absent, "default", "r1"}
Steps == {1, FreshMs, RetainMs - FreshMs}

\* request bodies: what request.json() yields when it does not throw
\* (at most one of the three fields is left out)
Bodies ==
  {body \in [room : BodyRooms, pitch : {Missing, <<7>>}, roll : {Missing, <<3>>},
             fire : {Missing, <<1>>}] :
     Cardinality({f \in {"pitch", "roll", "fire"} : body[f] = Missing}) <= 1}

OrDefaultOther(x) == IF x = Absent \/ x = "" THEN "r1" ELSE x

\* x || "default"
OrDefault(x) == IF x = Absent \/ x = "" THEN "default" ELSE x

\* x ?? 0
OrZero(x) == IF x = Missing THEN 0 ELSE x[1]

CleanOldDataWhileFresh(st, now) ==
  [k \in Keys |-> IF st[k] # NoEntry /\ now - st[k].timestamp > 0
                  THEN NoEntry ELSE st[k]]

CleanOldDataAtThreshold(st, now) ==
  [k \in Keys |-> IF st[k] # NoEntry /\ now - st[k].timestamp >= RetainMs
                  THEN NoEntry ELSE st[k]]

\* cleanOldData() with Date.now() = now
CleanOldData(st, now) ==
  [k \in Keys |-> IF st[k] # NoEntry /\ now - st[k].timestamp > RetainMs
                  THEN NoEntry ELSE st[k]]

NewEntryKeepsFire(body, now) ==
  LET old == store[OrDefault(body.room)]
  IN  [pitch |-> OrZero(body.pitch),
       fire |-> IF old = NoEntry THEN OrZero(body.fire) ELSE old.fire,
       timestamp |-> now]

\* the entry POST writes
NewEntry(body, now) ==
  [pitch |-> OrZero(body.pitch), fire |-> OrZero(body.fire), timestamp |-> now]

\* POST with a body that parses; d is the time that passes between the
\* Date.now() of the entry and the Date.now() of cleanOldData
PostStep(body, d) ==
  LET room == OrDefault(body.room)
  IN  /\ nTicks + d <= MaxTicks
      /\ nTicks' = nTicks + d
      /\ store' = CleanOldData([store EXCEPT ![room] = NewEntry(body, clock)], clock + d)
      /\ clock' = clock + d
      /\ puts' = [puts EXCEPT ![room] =
                    [pitch |-> body.pitch, roll |-> body.roll, fire |-> body.fire,
                     at |-> clock]]
      /\ lastReq' = [op |-> "POST", key |-> room, ok |-> TRUE, afterPut |-> FALSE,
                     resp |-> [ok |-> TRUE]]

Post(body, d) == PostStep(body, d) /\ UNCHANGED roomVars /\ UNCHANGED notStore

\* POST with a body for which request.json() throws
PostInvalid ==
  /\ lastReq' = [op |-> "POST", key |-> Absent, ok |-> FALSE, afterPut |-> FALSE,
                 resp |-> [error |-> "Invalid data", status |-> 400]]
  /\ UNCHANGED <<store, clock, nTicks, puts>>
  /\ UNCHANGED roomVars
  /\ UNCHANGED notStore

NoRecentDataAtThreshold(data, now) ==
  data = NoEntry \/ now - data.timestamp >= FreshMs

\* the test of GET for "no recent data"
NoRecentData(data, now) == data = NoEntry \/ now - data.timestamp > FreshMs

\* the body of the response of GET
GetResponse(data, now) ==
  IF NoRecentData(data, now)
  THEN [pitch |-> 0, fire |-> 0, connected |-> FALSE]
  ELSE [pitch |-> data.pitch, fire |-> data.fire, connected |-> TRUE]

GetStepSweeps(param) ==
  LET room == OrDefault(param)
      data == store[room]
  IN  /\ lastReq' = [op |-> "GET", key |-> room, ok |-> TRUE,
                     afterPut |-> /\ lastReq.op = "POST" /\ lastReq.ok
                                  /\ lastReq.key = room /\ puts[room].at = clock,
                     resp |-> GetResponse(data, clock)]
      /\ store' = CleanOldData(store, clock)
      /\ UNCHANGED <<clock, nTicks, puts>>

\* GET with the query parameter room; afterPut says that the request before
\* it was an accepted POST to the same key with this Date.now() as its timestamp
GetStep(param) ==
  LET room == OrDefault(param)
      data == store[room]
  IN  /\ lastReq' = [op |-> "GET", key |-> room, ok |-> TRUE,
                     afterPut |-> /\ lastReq.op = "POST" /\ lastReq.ok
                                  /\ lastReq.key = room /\ puts[room].at = clock,
                     resp |-> GetResponse(data, clock)]
      /\ UNCHANGED <<store, clock, nTicks, puts>>

Get(param) == GetStep(param) /\ UNCHANGED roomVars /\ UNCHANGED notStore

NoRequest ==
  [op |-> "none", key |-> Absent, ok |-> TRUE, afterPut |-> FALSE, resp |-> [ok |-> TRUE]]

\* time passes between two requests
Tick(d) ==
  /\ nTicks < MaxTicks
  /\ nTicks' = nTicks + 1
  /\ clock' = clock + d
  /\ lastReq' = NoRequest
  /\ UNCHANGED <<store, puts>>
  /\ UNCHANGED roomVars
  /\ UNCHANGED notStore

StoreInit ==
  /\ store = [k \in Keys |-> NoEntry]
  /\ clock = 0
  /\ nTicks = 0
  /\ puts = [k \in Keys |-> NoEntry]
  /\ lastReq = NoRequest
  /\ wrote = NoEntry
  /\ asked = Absent

StoreNext ==
  \/ \E body \in Bodies, d \in {0, 1} : Post(body, d)
  \/ PostInvalid
  \/ \E param \in Params : Get(param)
  \/ \E d \in Steps : Tick(d)

\* the requests of clients that name the room "default", or no room
RoomBodies ==
  [room : {Absent, "", "default", "r1"}, pitch : {<<7>>, <<8>>}, roll : {Missing},
   fire : {<<1>>}]

\* POST, with the body as sent kept in wrote
RoomsPost(body) ==
  /\ PostStep(body, 0)
  /\ wrote' = [room |-> body.room, pitch |-> body.pitch[1], fire |-> body.fire[1],
               at |-> clock]
  /\ UNCHANGED asked
  /\ UNCHANGED notStore

\* GET, with the room parameter as sent kept in asked
RoomsGet(param) ==
  /\ GetStep(param)
  /\ asked' = param
  /\ UNCHANGED wrote
  /\ UNCHANGED notStore

RoomsNext ==
  \/ \E body \in RoomBodies : RoomsPost(body)
  \/ \E param \in Params : RoomsGet(param)
  \/ \E d \in Steps : Tick(d)

\* ------------------------------------------------------------ Message codec
\* lib/types.ts (parseSensorMessage), the sender's JSON.stringify and the
\* receiver's onMessage. A text is a sequence of characters. A number is held
\* in tenths: 1.5 is 15.
Q == "\""
DigitChars == <<"0", "1", "2", "3", "4", "5", "6", "7", "8", "9">>
IsDigit(ch) == \E i \in 1..10 : DigitChars[i] = ch
DigitVal(ch) == (CHOOSE i \in 1..10 : DigitChars[i] = ch) - 1

\* JSON values
Num(t) == [num |-> t]
Str(cs) == [str |-> cs]
JNull == [null |-> TRUE]
JTrue == [bool |-> TRUE]
Arr == [arr |-> <<>>]
Obj(ms) == [obj |-> ms]
Undefined == [undef |-> TRUE]
SyntaxError == [error |-> "SyntaxError"]

WPitch == <<"p", "i", "t", "c", "h">>
WRoll == <<"r", "o", "l", "l">>
WFire == <<"f", "i", "r", "e">>
WType == <<"t", "y", "p", "e">>
WState == <<"s", "t", "a", "t", "e">>
WOther == <<"o", "f", "f">>
WNull == <<"n", "u", "l", "l">>
WTrue == <<"t", "r", "u", "e">>

\* ---- JSON.stringify of the values a packet holds
RECURSIVE IntText(_)
IntText(n) ==
  IF n < 10 THEN <<DigitChars[n + 1]>>
  ELSE IntText(n \div 10) \o <<DigitChars[(n % 10) + 1]>>

Abs(t) == IF t < 0 THEN 0 - t ELSE t

NumText(t) ==
  (IF t < 0 THEN <<"-">> ELSE <<>>)
    \o IntText(Abs(t) \div 10)
    \o (IF Abs(t) % 10 = 0 THEN <<>> ELSE <<".", DigitChars[(Abs(t) % 10) + 1]>>)

QuotedText(cs) == <<Q>> \o cs \o <<Q>>

ValueText(v) ==
  IF "num" \in DOMAIN v THEN NumText(v.num)
  ELSE IF "str" \in DOMAIN v THEN QuotedText(v.str)
  ELSE WNull

\* the members of an object, in order; a member whose value is undefined is
\* left out
RECURSIVE MembersText(_, _)
MembersText(ms, first) ==
  IF ms = <<>> THEN <<>>
  ELSE IF Head(ms).val = Undefined THEN MembersText(Tail(ms), first)
  ELSE (IF first THEN <<>> ELSE <<",">>)
         \o QuotedText(Head(ms).key) \o <<":">> \o ValueText(Head(ms).val)
         \o MembersText(Tail(ms), FALSE)

Stringify(ms) == <<"{">> \o MembersText(ms, TRUE) \o <<"}">>

\* ---- JSON.parse, for texts without white space, nesting, escapes and
\* exponents, with at most one digit after the decimal point and without
\* "," or ":" inside a string
RECURSIVE DigitsVal(_)
DigitsVal(cs) ==
  IF cs = <<>> THEN 0
  ELSE DigitsVal(SubSeq(cs, 1, Len(cs) - 1)) * 10 + DigitVal(cs[Len(cs)])

AllDigits(cs) == \A i \in 1..Len(cs) : IsDigit(cs[i])

\* the index of the first ch in cs, or 0
IndexOf(cs, ch) ==
  IF \E i \in 1..Len(cs) : cs[i] = ch
  THEN CHOOSE i \in 1..Len(cs) : cs[i] = ch /\ \A j \in 1..(i - 1) : cs[j] # ch
  ELSE 0

\* digits, then one digit after the point
Decimal(ip, fp) ==
  IF /\ ip # <<>> /\ AllDigits(ip)
     /\ (Len(ip) = 1 \/ ip[1] # "0")
     /\ Len(fp) = 1 /\ IsDigit(fp[1])
  THEN Num(DigitsVal(ip) * 10 + DigitVal(fp[1]))
  ELSE SyntaxError

\* a number without sign whose point is at index dot (0: no point)
UnsignedAt(body, dot) ==
  IF dot = 0 THEN Decimal(body, <<"0">>)
  ELSE Decimal(SubSeq(body, 1, dot - 1), SubSeq(body, dot + 1, Len(body)))

Negated(v) == IF v = SyntaxError THEN SyntaxError ELSE Num(0 - v.num)

ParseNumber(txt) ==
  IF txt # <<>> /\ txt[1] = "-"
  THEN Negated(UnsignedAt(Tail(txt), IndexOf(Tail(txt), ".")))
  ELSE UnsignedAt(txt, IndexOf(txt, "."))

ParseString(txt) ==
  IF /\ Len(txt) >= 2 /\ txt[1] = Q /\ txt[Len(txt)] = Q
     /\ \A i \in 2..(Len(txt) - 1) : txt[i] # Q
  THEN Str(SubSeq(txt, 2, Len(txt) - 1))
  ELSE SyntaxError

ParseScalar(txt) ==
  IF txt = WNull THEN JNull
  ELSE IF txt = WTrue THEN JTrue
  ELSE IF txt # <<>> /\ txt[1] = Q THEN ParseString(txt)
  ELSE ParseNumber(txt)

MakeMember(k, v) ==
  IF k = SyntaxError \/ v = SyntaxError THEN SyntaxError
  ELSE [key |-> k.str, val |-> v]

\* "key":value with the colon at index colon (0: no colon)
MemberAt(txt, colon) ==
  IF colon = 0 THEN SyntaxError
  ELSE MakeMember(ParseString(SubSeq(txt, 1, colon - 1)),
                  ParseScalar(SubSeq(txt, colon + 1, Len(txt))))

ParseMember(txt) == MemberAt(txt, IndexOf(txt, ":"))

\* the member m in front of the members rest
Cons(m, rest) ==
  IF m = SyntaxError \/ rest = SyntaxError THEN SyntaxError
  ELSE Obj(<<m>> \o rest.obj)

\* the members between the braces, each up to the next ","
RECURSIVE ParseMembers(_)
MembersAt(txt, comma) ==
  IF comma = 0 THEN Cons(ParseMember(txt), Obj(<<>>))
  ELSE Cons(ParseMember(SubSeq(txt, 1, comma - 1)),
            ParseMembers(SubSeq(txt, comma + 1, Len(txt))))

ParseMembers(txt) == MembersAt(txt, IndexOf(txt, ","))

JsonParse(txt) ==
  IF Len(txt) >= 2 /\ txt[1] = "{" /\ txt[Len(txt)] = "}"
  THEN IF Len(txt) = 2 THEN Obj(<<>>)
       ELSE ParseMembers(SubSeq(txt, 2, Len(txt) - 1))
  ELSE IF txt = <<"[", "]">> THEN Arr
  ELSE ParseScalar(txt)

\* ---- lib/types.ts
\* "key" in msg
HasKey(msg, key) ==
  "obj" \in DOMAIN msg /\ \E i \in 1..Len(msg.obj) : msg.obj[i].key = key

\* msg.key: the last member of that name, or undefined
Field(msg, key) ==
  IF HasKey(msg, key)
  THEN msg.obj[CHOOSE i \in 1..Len(msg.obj) :
                 /\ msg.obj[i].key = key
                 /\ \A j \in (i + 1)..Len(msg.obj) : msg.obj[j].key # key].val
  ELSE Undefined

\* the "in" operator throws a TypeError when msg is not an object
InThrows(msg) == ~("obj" \in DOMAIN msg \/ "arr" \in DOMAIN msg)

NullPkt == [null |-> TRUE]
Returned(v) == [threw |-> FALSE, value |-> v]
Threw == [threw |-> TRUE, value |-> NullPkt]

SelectUntaggedFirst(msg) ==
  IF msg = SyntaxError THEN Threw
  ELSE IF InThrows(msg) THEN Threw
  ELSE IF HasKey(msg, WPitch) /\ HasKey(msg, WFire)
  THEN Returned([pitch |-> Field(msg, WPitch), fire |-> Field(msg, WFire)])
  ELSE Returned(NullPkt)

\* the statements of the try block that follow JSON.parse
Select(msg) ==
  IF msg = SyntaxError THEN Threw
  ELSE IF InThrows(msg) THEN Threw
  ELSE IF HasKey(msg, WType) /\ Field(msg, WType) = Str(WState)
  THEN Returned([pitch |-> Field(msg, WPitch), fire |-> Field(msg, WFire)])
  ELSE IF HasKey(msg, WPitch) /\ HasKey(msg, WFire)
  THEN Returned([pitch |-> Field(msg, WPitch), fire |-> Field(msg, WFire)])
  ELSE Returned(NullPkt)

\* the try block
TryBlock(data) == Select(JsonParse(data))

CatchRethrows(outcome) == outcome

\* catch { } followed by return null
Catch(outcome) == IF outcome.threw THEN Returned(NullPkt) ELSE outcome

parseSensorMessage(data) == Catch(TryBlock(data))

\* ---- the sender: Math.round(x * 10) / 10 of a pitch given in hundredths
Round10(h) == (h + 5) \div 10

\* JSON.stringify({ pitch, fire })
EncodeUntagged(pitch, fire) ==
  Stringify(<<[key |-> WPitch, val |-> Num(pitch)],
              [key |-> WFire, val |-> Num(fire)]>>)

\* the wrapped form { type: "state", pitch, fire }
EncodeTagged(pitch, fire) ==
  Stringify(<<[key |-> WType, val |-> Str(WState)],
              [key |-> WPitch, val |-> Num(pitch)],
              [key |-> WFire, val |-> Num(fire)]>>)

RawPitches == {0 - 155, 0 - 4, 74}
Fires == {0, 10}
Shapes == {"untagged", "tagged"}
NoSample == [none |-> TRUE]
NoText == <<>>

\* texts a peer may deliver
Payloads ==
  { EncodeUntagged(70, 10),
    EncodeTagged(0 - 15, 0),
    Stringify(<<[key |-> WType, val |-> Str(WState)], [key |-> WFire, val |-> Num(10)]>>),
    Stringify(<<[key |-> WType, val |-> Str(WState)]>>),
    Stringify(<<[key |-> WType, val |-> Str(WOther)],
                [key |-> WPitch, val |-> Num(20)], [key |-> WFire, val |-> Num(0)]>>),
    Stringify(<<[key |-> WPitch, val |-> Num(70)]>>),
    Stringify(<<[key |-> WFire, val |-> Num(10)]>>),
    Stringify(<<[key |-> WPitch, val |-> JNull], [key |-> WFire, val |-> Num(10)]>>),
    Stringify(<<[key |-> WPitch, val |-> Num(70)], [key |-> WRoll, val |-> Num(30)],
                [key |-> WFire, val |-> Num(10)]>>),
    Stringify(<<>>),
    WNull, WTrue, <<"7">>, QuotedText(WState), <<"[", "]">>, <<>>,
    <<"{", Q, "p", "i", "t", "c", "h", Q, ":">>,
    <<"{", Q, "p", "i", "t", "c", "h", Q, ":", "7", ",", "}">>,
    <<"p", "i", "t", "c", "h">> }

\* every text a run can hand to onMessage
Texts ==
  Payloads \cup {EncodeUntagged(Round10(raw), fire) : raw \in RawPitches, fire \in Fires}
           \cup {EncodeTagged(Round10(raw), fire) : raw \in RawPitches, fire \in Fires}

\* parseSensorMessage, tabulated over those texts
Decoded == [data \in Texts |-> parseSensorMessage(data)]

\* onMessage of the receiving page with the text data
OnMessage(data) ==
  \E r \in {Decoded[data]} :
    /\ cThrew' = r.threw
    /\ cPkt' = r.value
    /\ rxBefore' = rx
    /\ rx' = IF r.threw \/ r.value = NullPkt THEN rx
             ELSE [pitch |-> r.value.pitch, fire |-> r.value.fire]
    /\ cText' = data

\* a text arrives that some peer made
Receive(data) ==
  /\ OnMessage(data)
  /\ cSent' = NoSample
  /\ cOp' = "message"
  /\ UNCHANGED notCodec

\* a tick of the sender's loop: the sample is encoded and handed to send()
Encode(raw, fire, shape) ==
  LET p == Round10(raw)
  IN  /\ cSent' = [pitch |-> p, fire |-> fire, shape |-> shape]
      /\ cText' = IF shape = "tagged" THEN EncodeTagged(p, fire)
                  ELSE EncodeUntagged(p, fire)
      /\ cOp' = "encode"
      /\ UNCHANGED <<cPkt, cThrew, rx, rxBefore>>
      /\ UNCHANGED notCodec

\* the encoded text reaches the receiving page
Deliver ==
  /\ cOp = "encode"
  /\ OnMessage(cText)
  /\ cOp' = "decode"
  /\ UNCHANGED cSent
  /\ UNCHANGED notCodec

CodecInit ==
  /\ cSent = NoSample
  /\ cText = NoText
  /\ cPkt = NullPkt
  /\ cThrew = FALSE
  /\ rx = [pitch |-> Num(0), fire |-> Num(0)]
  /\ rxBefore = [pitch |-> Num(0), fire |-> Num(0)]
  /\ cOp = "none"

CodecNext ==
  \/ \E data \in Payloads : Receive(data)
  \/ \E raw \in RawPitches, fire \in Fires, shape \in Shapes : Encode(raw, fire, shape)
  \/ Deliver

\* ------------------------------------------------- Send and poll timers
\* The auto-send effect of the mobile page and the poll effect of the PC page:
\* setInterval with an async callback, so a tick starts a request and returns,
\* and the rest of the callback runs when the request settles.
PollEntries ==
  {NoEntry, [pitch |-> 7, fire |-> 1, timestamp |-> 0],
            [pitch |-> 3, fire |-> 0, timestamp |-> 0]}
PollTimes == {FreshMs, FreshMs + 1}

\* what GET can answer; res.json() gives back the fields the route serialised
PollResponses == {GetResponse(d, n) : d \in PollEntries, n \in PollTimes}

\* data.roll
RollOf(data) == IF "roll" \in DOMAIN data THEN <<data.roll>> ELSE Missing

NoPoll == [kind |-> "none"]

\* one more failure in a row
Counted(n) == IF n < MaxFails THEN n + 1 ELSE n

\* a tick of the poll timer: fetch("/api/sensor") is started
PollTickStep ==
  /\ pcMounted
  /\ pollFlight < MaxInflight
  /\ pollFlight' = pollFlight + 1
  /\ UNCHANGED <<pc, lastPoll, pcMounted, sendFlight, mobConnected, mobMounted, pollFails, sendFails, unhandled>>

PollTick == PollTickStep /\ UNCHANGED raceVars /\ UNCHANGED notTimers

PollOkKeepsSample(data) ==
  /\ pollFlight > 0
  /\ pollFlight' = pollFlight - 1
  /\ pc' = IF data.connected
           THEN [rawPitch |-> data.pitch, rawRoll |-> RollOf(data),
                 lastFireSet |-> pc.lastFireSet \/ (data.fire # 0 /\ pc.fireRef = 0),
                 fireRef |-> data.fire,
                 displayPitch |-> data.pitch, displayRoll |-> RollOf(data),
                 fire |-> data.fire, connected |-> data.connected]
           ELSE [pc EXCEPT !.connected = FALSE]
  /\ lastPoll' = [kind |-> "answered", data |-> data, before |-> pc]
  /\ pollFails' = 0
  /\ UNCHANGED <<pcMounted, sendFlight, mobConnected, mobMounted, sendFails, unhandled>>
  /\ UNCHANGED raceVars
  /\ UNCHANGED notTimers

\* a poll is answered with data: the statements after the awaits
PollOkStep(data) ==
  /\ pollFlight > 0
  /\ pollFlight' = pollFlight - 1
  /\ pc' = [rawPitch |-> data.pitch, rawRoll |-> RollOf(data),
            lastFireSet |-> pc.lastFireSet \/ (data.fire # 0 /\ pc.fireRef = 0),
            fireRef |-> data.fire,
            displayPitch |-> data.pitch, displayRoll |-> RollOf(data),
            fire |-> data.fire, connected |-> data.connected]
  /\ lastPoll' = [kind |-> "answered", data |-> data, before |-> pc]
  /\ pollFails' = 0
  /\ UNCHANGED <<pcMounted, sendFlight, mobConnected, mobMounted, sendFails, unhandled>>

PollOk(data) == PollOkStep(data) /\ UNCHANGED raceVars /\ UNCHANGED notTimers

PollFailUncaught ==
  /\ pollFlight > 0
  /\ pollFlight' = pollFlight - 1
  /\ unhandled' = TRUE
  /\ lastPoll' = [kind |-> "failed", before |-> pc]
  /\ pollFails' = Counted(pollFails)
  /\ UNCHANGED <<pc, pcMounted, sendFlight, mobConnected, mobMounted, sendFails>>
  /\ UNCHANGED raceVars
  /\ UNCHANGED notTimers

\* a poll fails (fetch or res.json() rejects): the catch block
PollFail ==
  /\ pollFlight > 0
  /\ pollFlight' = pollFlight - 1
  /\ pc' = [pc EXCEPT !.connected = FALSE]
  /\ lastPoll' = [kind |-> "failed", before |-> pc]
  /\ pollFails' = Counted(pollFails)
  /\ UNCHANGED <<pcMounted, sendFlight, mobConnected, mobMounted, sendFails, unhandled>>
  /\ UNCHANGED raceVars
  /\ UNCHANGED notTimers

\* the cleanup of the poll effect: clearInterval(timer)
PcUnmount ==
  /\ pcMounted
  /\ pcMounted' = FALSE
  /\ UNCHANGED <<pc, lastPoll, pollFlight, sendFlight, mobConnected, mobMounted, pollFails, sendFails, unhandled>>
  /\ UNCHANGED raceVars
  /\ UNCHANGED notTimers

\* a tick of the send timer: fetch("/api/sensor", {method: "POST", ...}) is started
SendTickStep ==
  /\ mobMounted
  /\ sendFlight < MaxInflight
  /\ sendFlight' = sendFlight + 1
  /\ UNCHANGED <<pc, lastPoll, pollFlight, pcMounted, mobConnected, mobMounted, pollFails, sendFails, unhandled>>

SendTick == SendTickStep /\ UNCHANGED raceVars /\ UNCHANGED notTimers

\* a send settles: setConnected(true) when fetch resolved, the catch block
\* when it rejected
SendSettledStep(resolved) ==
  /\ sendFlight > 0
  /\ sendFlight' = sendFlight - 1
  /\ mobConnected' = resolved
  /\ sendFails' = IF resolved THEN 0 ELSE Counted(sendFails)
  /\ UNCHANGED <<pc, lastPoll, pollFlight, pcMounted, mobMounted, pollFails, unhandled>>

SendSettled(resolved) == SendSettledStep(resolved) /\ UNCHANGED raceVars /\ UNCHANGED notTimers

\* the cleanup of the auto-send effect: clearInterval(timer)
MobUnmount ==
  /\ mobMounted
  /\ mobMounted' = FALSE
  /\ UNCHANGED <<pc, lastPoll, pollFlight, pcMounted, sendFlight, mobConnected, pollFails, sendFails, unhandled>>
  /\ UNCHANGED raceVars
  /\ UNCHANGED notTimers

TimersInit ==
  /\ pc = [rawPitch |-> 0, rawRoll |-> <<0>>, lastFireSet |-> FALSE, fireRef |-> 0,
           displayPitch |-> 0, displayRoll |-> <<0>>, fire |-> 0,
           connected |-> FALSE]
  /\ lastPoll = NoPoll
  /\ pollFlight = 0
  /\ pcMounted = TRUE
  /\ sendFlight = 0
  /\ mobConnected = FALSE
  /\ mobMounted = TRUE
  /\ pollFails = 0
  /\ sendFails = 0
  /\ unhandled = FALSE

TimersNext ==
  \/ PollTick
  \/ \E data \in PollResponses : PollOk(data)
  \/ PollFail
  \/ PcUnmount
  \/ SendTick
  \/ \E resolved \in BOOLEAN : SendSettled(resolved)
  \/ MobUnmount

\* ------------------------------------------- Timers, network and store
\* The requests of the two timers on their way: a request is sent, handled by
\* the route and answered, and its answer settles the fetch. The network
\* orders neither the requests nor the answers of different fetches.
Request(kind, id) == [kind |-> kind, id |-> id, stage |-> "sent", resp |-> NoEntry]
Answered(r, resp) == [r EXCEPT !.stage = "answered", !.resp = resp]

\* the body of send number id: pitchRef is id at that tick
SendBody(id) == [room |-> Absent, pitch |-> <<id>>, roll |-> <<0>>, fire |-> <<0>>]

\* a tick of the send timer starts the next POST
IssueSend ==
  /\ issued.post < MaxIssued
  /\ SendTickStep
  /\ issued' = [issued EXCEPT !.post = @ + 1]
  /\ flights' = flights \cup {Request("POST", issued.post + 1)}
  /\ UNCHANGED <<shown, stored>>
  /\ UNCHANGED storeVars
  /\ UNCHANGED notRace

\* a tick of the poll timer starts the next GET
IssuePoll ==
  /\ issued.get < MaxIssued
  /\ PollTickStep
  /\ issued' = [issued EXCEPT !.get = @ + 1]
  /\ flights' = flights \cup {Request("GET", issued.get + 1)}
  /\ UNCHANGED <<shown, stored>>
  /\ UNCHANGED storeVars
  /\ UNCHANGED notRace

\* the route handles the POST r
ServePost(r) ==
  /\ r.kind = "POST" /\ r.stage = "sent"
  /\ PostStep(SendBody(r.id), 0)
  /\ stored' = r.id
  /\ flights' = (flights \ {r}) \cup {Answered(r, lastReq'.resp)}
  /\ UNCHANGED <<issued, shown>>
  /\ UNCHANGED timerVars
  /\ UNCHANGED notRace

\* the route handles the GET r
ServeGet(r) ==
  /\ r.kind = "GET" /\ r.stage = "sent"
  /\ GetStep(Absent)
  /\ flights' = (flights \ {r}) \cup {Answered(r, lastReq'.resp)}
  /\ UNCHANGED <<issued, shown, stored>>
  /\ UNCHANGED timerVars
  /\ UNCHANGED notRace

\* the answer of the POST r reaches the mobile page
SettleSend(r) ==
  /\ r.kind = "POST" /\ r.stage = "answered"
  /\ SendSettledStep(TRUE)
  /\ flights' = flights \ {r}
  /\ UNCHANGED <<issued, shown, stored>>
  /\ UNCHANGED storeVars
  /\ UNCHANGED notRace

\* the answer of the GET r reaches the PC page
SettlePoll(r) ==
  /\ r.kind = "GET" /\ r.stage = "answered"
  /\ PollOkStep(r.resp)
  /\ shown' = r.id
  /\ flights' = flights \ {r}
  /\ UNCHANGED <<issued, stored>>
  /\ UNCHANGED storeVars
  /\ UNCHANGED notRace

RaceInit ==
  /\ flights = {}
  /\ issued = [get |-> 0, post |-> 0]
  /\ shown = 0
  /\ stored = 0

RaceNext ==
  \/ IssueSend
  \/ IssuePoll
  \/ \E r \in flights : ServePost(r)
  \/ \E r \in flights : ServeGet(r)
  \/ \E r \in flights : SettleSend(r)
  \/ \E r \in flights : SettlePoll(r)

\* ---------------------------------------------------------- Low-pass filter
\* class LowPassFilter. A number is a binary floating-point value with MantBits
\* significant bits, held as an integer count of units of 2^-FracBits; every
\* arithmetic result is rounded to the nearest such value, ties to even.
MantBits == 4
FracBits == 6
One == 2 ^ FracBits

\* the spacing of the representable values around the magnitude a, at least q
RECURSIVE Quantum(_, _)
Quantum(a, q) == IF a < (2 ^ MantBits) * q THEN q ELSE Quantum(a, 2 * q)

\* the multiple of q nearest to a >= 0
Nearest(a, q) ==
  IF 2 * (a % q) < q THEN a - (a % q)
  ELSE IF 2 * (a % q) > q THEN a - (a % q) + q
  ELSE IF (a \div q) % 2 = 0 THEN a - (a % q)
  ELSE a - (a % q) + q

\* the rounded value of n units
Fl(n) ==
  IF n < 0 THEN 0 - Nearest(0 - n, Quantum(0 - n, 1))
  ELSE Nearest(n, Quantum(n, 1))

\* the rounded product of a and b
FlMul(a, b) ==
  IF a * b < 0 THEN 0 - (Nearest(0 - a * b, Quantum(0 - a * b, One)) \div One)
  ELSE Nearest(a * b, Quantum(a * b, One)) \div One

FilterStepFromInput(value, alpha, input) ==
  Fl(input + FlMul(alpha, Fl(input - value)))

\* this.value += this.alpha * (input - this.value)
FilterStep(value, alpha, input) ==
  Fl(value + FlMul(alpha, Fl(input - value)))

\* smoothing coefficients 0.25, 0.40625, 0.5 and 0.9375; inputs -6, 0, 0.75, 10
Alphas == {16, 26, 32, 60}
NoFilter == 0 - 1     \* no filter has been constructed
FInputs == {0 - 384, 0, 48, 640}

\* new LowPassFilter(alpha): value = 0
Construct(alpha) ==
  /\ fAlpha = NoFilter
  /\ fAlpha' = alpha
  /\ fValue' = 0
  /\ UNCHANGED <<fBefore, fIn, fCalls, fRun>>
  /\ UNCHANGED notFilter

\* filter(input)
Filter(input) ==
  /\ fAlpha # NoFilter
  /\ fCalls < MaxCalls
  /\ fCalls' = fCalls + 1
  /\ fBefore' = fValue
  /\ fValue' = FilterStep(fValue, fAlpha, input)
  /\ fIn' = input
  /\ fRun' = IF fCalls > 0 /\ fIn = input THEN fRun + 1 ELSE 1
  /\ UNCHANGED fAlpha
  /\ UNCHANGED notFilter

FilterInit ==
  /\ fAlpha = NoFilter
  /\ fValue = 0
  /\ fBefore = 0
  /\ fIn = 0
  /\ fCalls = 0
  /\ fRun = 0

FilterNext ==
  \/ \E alpha \in Alphas : Construct(alpha)
  \/ \E input \in FInputs : Filter(input)

\* ---------------------------------------------------------- Adaptive filter
\* class OneEuroFilter of the mobile page, as pitchFilter is constructed.
\* Angles are whole degrees, speeds degrees per second, times tenths of a
\* millisecond, cutoffs tenths of a hertz; a quotient is rounded to the nearest
\* whole number. A coefficient alpha is kept as the number n with
\* alpha = n / (n + AlphaDen).
MinDt == 10           \* Math.max(..., 0.001): 0.001 s
MinCutoff == 15       \* pitchFilter: new OneEuroFilter(1.5, 0.01, 1.0)
BetaMilli == 10
DCutoff == 10
YawMinCutoff == 20    \* yawFilter: new OneEuroFilter(2.0, 0.005, 1.0)
YawBetaMilli == 5
AlphaDen == 175000    \* 2 * pi * cutoff * dt = 11 * cutoff * dt / 175000, pi as 22/7
NoNumber == <<>>      \* null; <<v>> is the number v

RoundDiv(a, b) == (a + b \div 2) \div b

ElapsedMinTooSmall(now, last) == IF now - last > 1 THEN now - last ELSE 1

\* Math.max((now - this.lastTime) / 1000, 0.001)
Elapsed(now, last) == IF now - last > MinDt THEN now - last ELSE MinDt

\* alpha(cutoff, dt) = 1 / (1 + tau / dt) with tau = 1 / (2 * pi * cutoff)
AlphaNum(cutoff, dt) == 11 * cutoff * dt

\* alpha * a + (1 - alpha) * b
Mix(n, a, b) == RoundDiv(n * a + AlphaDen * b, n + AlphaDen)

\* (value - this.x) / dt
Slope(value, x, dt) == RoundDiv((value - x) * 10000, dt)

\* this.minCutoff + this.beta * Math.abs(edx)
Cutoff(f, edx) == f.minCutoff + RoundDiv(f.beta * Abs(edx), 100)

\* new OneEuroFilter(minCutoff, beta, dCutoff)
NewEuro(minCutoff, beta, dCutoff) ==
  [x |-> NoNumber, dx |-> 0, lastTime |-> NoNumber,
   minCutoff |-> minCutoff, beta |-> beta, dCutoff |-> dCutoff]

PitchFilter == NewEuro(MinCutoff, BetaMilli, DCutoff)
YawFilter == NewEuro(YawMinCutoff, YawBetaMilli, DCutoff)
NoCall == [in |-> 0, out |-> 0, dt |-> 0, nd |-> 0, nx |-> 0, seeded |-> FALSE]

\* the filtered value and the new state, given dt and the derivative estimate
Smoothed(f, value, now, dt, edx) ==
  [f EXCEPT !.x = <<Mix(AlphaNum(Cutoff(f, edx), dt), value, f.x[1])>>,
            !.dx = edx, !.lastTime = <<now>>]

\* filter(value, timestamp): the state after the call
EuroFilter(f, value, now) ==
  IF f.x = NoNumber \/ f.lastTime = NoNumber
  THEN [f EXCEPT !.x = <<value>>, !.lastTime = <<now>>]
  ELSE Smoothed(f, value, now, Elapsed(now, f.lastTime[1]),
                Mix(AlphaNum(f.dCutoff, Elapsed(now, f.lastTime[1])),
                    Slope(value, f.x[1], Elapsed(now, f.lastTime[1])), f.dx))

\* what the call used: dt and the two coefficients
EuroCall(f, g, value, now) ==
  IF f.x = NoNumber \/ f.lastTime = NoNumber
  THEN [in |-> value, out |-> g.x[1], dt |-> 0, nd |-> 0, nx |-> 0, seeded |-> TRUE]
  ELSE [in |-> value, out |-> g.x[1], dt |-> Elapsed(now, f.lastTime[1]),
        nd |-> AlphaNum(f.dCutoff, Elapsed(now, f.lastTime[1])),
        nx |-> AlphaNum(Cutoff(f, g.dx), Elapsed(now, f.lastTime[1])),
        seeded |-> FALSE]

EuroValues == {0 - 5, 0, 5}
EuroTimes == {0, 5, 160, 320, 10000}
NoTwin == [none |-> TRUE]

\* pitchFilter.current.filter(rawPitch, now)
Apply(value, now) ==
  /\ eCalls < MaxApplies
  /\ eCalls' = eCalls + 1
  /\ euro' = EuroFilter(euro, value, now)
  /\ eLast' = EuroCall(euro, euro', value, now)
  /\ twin' = IF twin = NoTwin THEN NoTwin ELSE EuroFilter(twin, value, now)
  /\ UNCHANGED notEuro

ResetKeepsDx ==
  /\ euro' = [euro EXCEPT !.x = NoNumber, !.lastTime = NoNumber]
  /\ twin' = PitchFilter
  /\ eLast' = NoCall
  /\ UNCHANGED eCalls
  /\ UNCHANGED notEuro

\* this.x = null; this.dx = 0; this.lastTime = null
EuroReset(f) == [f EXCEPT !.x = NoNumber, !.dx = 0, !.lastTime = NoNumber]

\* reset()
Reset ==
  /\ euro' = EuroReset(euro)
  /\ twin' = PitchFilter
  /\ eLast' = NoCall
  /\ UNCHANGED eCalls
  /\ UNCHANGED notEuro

EuroInit ==
  /\ euro = PitchFilter
  /\ eLast = NoCall
  /\ twin = NoTwin
  /\ eCalls = 0

EuroNext ==
  \/ \E value \in EuroValues, now \in EuroTimes : Apply(value, now)
  \/ Reset

\* ------------------------------------------- WebSocket sender: the send loop
\* The effect of the WebSocket sender page with dependencies [status, send].
\* send is a useCallback with no dependencies, so the effect runs again only
\* when a render commits a status other than that of the render before; React
\* runs the cleanup of the effect before it runs the effect again, and at
\* unmount.
Statuses == {"disconnected", "connecting", "connected"}
NoTimer == 0

CleanupLeavesInterval(ref, live) == live

\* the intervals left by the effect's cleanup:
\* if (sendTimerRef.current) clearInterval(sendTimerRef.current)
Cleanup(ref, live) == IF ref # NoTimer THEN live \ {ref} ELSE live

\* a handler of the hook calls setStatus(s); the render is scheduled
SetStatus(s) ==
  /\ loop.wsMounted /\ loop.nChanges < MaxChanges
  /\ loop' = [loop EXCEPT !.nChanges = @ + 1, !.hookStatus = s]
  /\ UNCHANGED notLoop

\* the render with a new status commits: cleanup, then the effect
Render ==
  /\ loop.wsMounted /\ loop.hookStatus # loop.rendered
  /\ loop' = IF loop.hookStatus = "connected"
             THEN [loop EXCEPT !.rendered = loop.hookStatus,
                               !.nIntervals = @ + 1,
                               !.sendTimerRef = loop.nIntervals + 1,
                               !.intervals = Cleanup(loop.sendTimerRef, @)
                                               \cup {loop.nIntervals + 1}]
             ELSE [loop EXCEPT !.rendered = loop.hookStatus,
                               !.sendTimerRef = NoTimer,
                               !.intervals = Cleanup(loop.sendTimerRef, @)]
  /\ UNCHANGED notLoop

\* the page unmounts: cleanup
WsUnmount ==
  /\ loop.wsMounted
  /\ loop' = [loop EXCEPT !.wsMounted = FALSE, !.sendTimerRef = NoTimer,
                          !.intervals = Cleanup(loop.sendTimerRef, @)]
  /\ UNCHANGED notLoop

\* an interval fires: send(JSON.stringify(...))
LoopTick(id) ==
  /\ loop' = [loop EXCEPT !.ticked = @ \cup {<<loop.rendered, loop.wsMounted>>}]
  /\ UNCHANGED notLoop

LoopInit ==
  loop = [hookStatus |-> "disconnected", rendered |-> "disconnected",
          sendTimerRef |-> NoTimer, intervals |-> {}, nIntervals |-> 0,
          wsMounted |-> TRUE, nChanges |-> 0, ticked |-> {}]

LoopNext ==
  \/ \E s \in Statuses : SetStatus(s)
  \/ Render
  \/ WsUnmount
  \/ \E id \in loop.intervals : LoopTick(id)

\* ------------------------------------------------- Senders: sensor handlers
\* The three sender pages: "gyro" (mobile page, POST, OneEuroFilter, yaw
\* integrated from the gyroscope), "tilt" (POST, LowPassFilter(0.5), roll from
\* the compass heading) and "ws" (WebSocket sender, pitch only). The gyro and
\* ws pages count whole degrees, the tilt page units of 2^-FracBits degrees;
\* a dispatched value is counted in the steps its Math.round leaves: 1/100
\* degree for the POST pages, 1/10 degree for the WebSocket page.
MaxPitch == 60
MaxRoll == 45
MaxYaw == 50
HalfAlpha == 32       \* new LowPassFilter(0.5), in units of 2^-FracBits

ClampLowOnly(v, lo, hi) == IF v < lo THEN lo ELSE v

\* Math.max(lo, Math.min(hi, v))
Clamp(v, lo, hi) == IF v > hi THEN hi ELSE IF v < lo THEN lo ELSE v

\* while (a > 180) a -= 360; while (a < -180) a += 360
RECURSIVE WrapAngle(_)
WrapAngle(a) ==
  IF a > 180 THEN WrapAngle(a - 360)
  ELSE IF a < 0 - 180 THEN WrapAngle(a + 360)
  ELSE a

\* yawAccumulator after one rotation sample of yawRate degrees per second
Integrated(acc, yawRate, dt) ==
  Clamp(IF Abs(acc + RoundDiv(yawRate * dt, 10000)) > MaxYaw
        THEN RoundDiv((acc + RoundDiv(yawRate * dt, 10000)) * 98, 100)
        ELSE acc + RoundDiv(yawRate * dt, 10000),
        0 - MaxYaw, MaxYaw)

\* deltaAlpha of the tilt page: one correction each way
DeltaAlpha(d) == IF d > 180 * One THEN d - 360 * One
                 ELSE IF d < 0 - 180 * One THEN d + 360 * One ELSE d

AimKinds == {"gyro", "tilt", "ws"}
AimSteps == {0, 160, 10000}
YawRates == {0 - 400, 0, 30, 400}
Betas == {0 - 180, 31, 90, 179}
Headings == {0, 10, 200, 350}
WideBetas == {0 - 500, 0 - 180, 59, 61, 400}
NoBody == [none |-> TRUE]

\* setMotionEnabled(true): the sensor effect of the page runs
AimEnable(kind) ==
  /\ aim.kind = "none"
  /\ aim' = [aim EXCEPT !.kind = kind,
                        !.yawAccumulator = 0,
                        !.lastGyroTime = aim.now,
                        !.pitchEuro = EuroReset(@),
                        !.yawEuro = EuroReset(@),
                        !.alphaRef = NoNumber]
  /\ UNCHANGED notAim

\* the gyro page after handleMotion at time now with the accumulator at acc
AfterMotion(a, now, acc) ==
  [a EXCEPT !.nEvents = @ + 1, !.now = now, !.lastGyroTime = now,
            !.yawAccumulator = acc,
            !.yawEuro = EuroFilter(@, acc, now),
            !.rollRef = EuroFilter(a.yawEuro, acc, now).x[1]]

\* gyro page, handleMotion with rotationRate.gamma = yawRate
HandleMotion(yawRate, step) ==
  /\ aim.kind = "gyro" /\ aim.nEvents < MaxEvents
  /\ aim' = AfterMotion(aim, aim.now + step,
                        Integrated(aim.yawAccumulator, yawRate,
                                   Elapsed(aim.now + step, aim.lastGyroTime)))
  /\ UNCHANGED notAim

\* gyro page, handleOrientation
HandleOrientation(beta, step) ==
  /\ aim.kind = "gyro" /\ aim.nEvents < MaxEvents
  /\ aim' = [aim EXCEPT
               !.nEvents = @ + 1, !.now = @ + step,
               !.pitchEuro = EuroFilter(@, Clamp(90 - beta, 0 - MaxPitch, MaxPitch),
                                        aim.now + step),
               !.pitchRef = EuroFilter(aim.pitchEuro,
                                       Clamp(90 - beta, 0 - MaxPitch, MaxPitch),
                                       aim.now + step).x[1]]
  /\ UNCHANGED notAim

\* gyro page, the Recenter button
Recenter ==
  /\ aim.kind = "gyro"
  /\ aim.yawAccumulator # 0
  /\ aim' = [aim EXCEPT !.yawAccumulator = 0]
  /\ UNCHANGED notAim

\* the tilt page after handleOrientation with the reference heading ref
AfterTilt(a, ref, alpha, beta) ==
  [a EXCEPT
     !.nEvents = @ + 1, !.alphaRef = <<ref>>,
     !.rollLow = FilterStep(@, HalfAlpha,
                            Clamp(0 - DeltaAlpha(alpha * One - ref),
                                  0 - MaxRoll * One, MaxRoll * One)),
     !.rollRef = FilterStep(a.rollLow, HalfAlpha,
                            Clamp(0 - DeltaAlpha(alpha * One - ref),
                                  0 - MaxRoll * One, MaxRoll * One)),
     !.pitchLow = FilterStep(@, HalfAlpha,
                             Clamp(0 - (beta * One - 60 * One),
                                   0 - MaxPitch * One, MaxPitch * One)),
     !.pitchRef = FilterStep(a.pitchLow, HalfAlpha,
                             Clamp(0 - (beta * One - 60 * One),
                                   0 - MaxPitch * One, MaxPitch * One))]

\* tilt page, handleOrientation; alpha and beta in whole degrees
TiltOrientation(alpha, beta) ==
  /\ aim.kind = "tilt" /\ aim.nEvents < MaxEvents
  /\ aim' = AfterTilt(aim, IF aim.alphaRef = NoNumber THEN alpha * One ELSE aim.alphaRef[1],
                      alpha, beta)
  /\ UNCHANGED notAim

\* WebSocket page, handleOrientation
WsOrientation(beta) ==
  /\ aim.kind = "ws" /\ aim.nEvents < MaxEvents
  /\ aim' = [aim EXCEPT !.nEvents = @ + 1,
                        !.pitchRef = Clamp(WrapAngle(beta), 0 - MaxPitch, MaxPitch)]
  /\ UNCHANGED notAim

\* the body a send timer builds: Math.round(x * 100) / 100 on the POST pages,
\* Math.round(x * 10) / 10 and no roll on the WebSocket page
AimBody(kind, pitch, roll) ==
  IF kind = "ws" THEN [per |-> 10, pitch |-> pitch * 10]
  ELSE IF kind = "tilt"
  THEN [per |-> 100, pitch |-> RoundDiv(pitch * 100, One), roll |-> RoundDiv(roll * 100, One)]
  ELSE [per |-> 100, pitch |-> pitch * 100, roll |-> roll * 100]

\* a tick of the send timer
AimSend ==
  /\ aim.kind # "none"
  /\ aim.sent # AimBody(aim.kind, aim.pitchRef, aim.rollRef)
  /\ aim' = [aim EXCEPT !.sent = AimBody(aim.kind, aim.pitchRef, aim.rollRef)]
  /\ UNCHANGED notAim

AimInit ==
  aim = [kind |-> "none", now |-> 0, pitchRef |-> 0, rollRef |-> 0,
         yawAccumulator |-> 0, lastGyroTime |-> 0, alphaRef |-> NoNumber,
         pitchEuro |-> PitchFilter, yawEuro |-> YawFilter,
         pitchLow |-> 0, rollLow |-> 0, sent |-> NoBody, nEvents |-> 0]

AimNext ==
  \/ \E kind \in AimKinds : AimEnable(kind)
  \/ \E yawRate \in YawRates, step \in AimSteps : HandleMotion(yawRate, step)
  \/ \E beta \in Betas, step \in AimSteps : HandleOrientation(beta, step)
  \/ Recenter
  \/ \E alpha \in Headings, beta \in Betas : TiltOrientation(alpha, beta)
  \/ \E beta \in WideBetas : WsOrientation(beta)
  \/ AimSend

Init ==
  /\ ConnInit /\ RelayInit /\ StoreInit /\ CodecInit /\ TimersInit /\ RaceInit
  /\ FilterInit /\ EuroInit /\ LoopInit /\ AimInit

SpecConn == Init /\ [][ConnNext]_vars

SpecInbound == Init /\ [][InboundNext]_vars

SpecRelay == Init /\ [][RelayNext]_vars

SpecOrder == Init /\ [][OrderNext]_vars

SpecStore == Init /\ [][StoreNext]_vars

SpecRooms == Init /\ [][RoomsNext]_vars

SpecCodec == Init /\ [][CodecNext]_vars

SpecTimers == Init /\ [][TimersNext]_vars

SpecRace == Init /\ [][RaceNext]_vars

SpecFilter == Init /\ [][FilterNext]_vars

SpecEuro == Init /\ [][EuroNext]_vars

SpecLoop == Init /\ [][LoopNext]_vars

SpecAim == Init /\ [][AimNext]_vars

\* ------------------------------------------- Connection Manager: properties
Live == {s \in SockIds : readyState[s] \in {"CONNECTING", "OPEN"}}

HasWssPrefix(u) ==
  /\ Len(u) >= 6
  /\ u[1] = "w" /\ u[2] = "s" /\ u[3] = "s" /\ u[4] = ":" /\ u[5] = "/" /\ u[6] = "/"

\* C1: at most one socket created by the manager is connecting or open at any
\* time, after any sequence of connect, disconnect and transport events.
C1_AtMostOneLive == Cardinality(Live) <= 1

\* C5: connect(address) with an address that does not start with wss:// is a
\* no-op: the status and the held handle are as they were before the call.
C5_RejectedConnectIsNoOp ==
  (lastOp.op = "connect" /\ ~HasWssPrefix(lastOp.arg))
    => (wsRef = lastOp.held /\ status = lastOp.pst)

\* C6: every socket the manager has ever constructed was constructed with an
\* address that starts with wss://.
C6_OnlySecureSockets ==
  \A s \in SockIds : readyState[s] # "NONE" => HasWssPrefix(sockUrl[s])

\* a connect with ws://a was refused while the one socket made so far is wss://a
C6_Witness ==
  /\ lastOp.op = "connect" /\ lastOp.arg = UrlWsA
  /\ nSock = 1 /\ sockUrl[1] = UrlWssA /\ readyState[1] # "NONE"

\* C7: a send made while the status is Disconnected or Connecting transmits
\* nothing, throws nothing and is not delivered later; every transmitted datum
\* comes from a send call that saw the status Connected.
C7_SendOnlyWhenConnected ==
  /\ \A i \in 1..Len(wire) : sendLog[wire[i].call] = "connected"
  /\ "send" \notin thrown

\* a send was made while Connecting, the connection opened later, and nothing
\* was transmitted
C7_Witness ==
  /\ \E i \in 1..Len(sendLog) : sendLog[i] = "connecting"
  /\ status = "connected" /\ wsRef # Null /\ readyState[wsRef] = "OPEN"
  /\ wire = <<>>

\* C8: after the close or error event of the socket the manager holds, the
\* status is Disconnected, the handle is cleared and the socket is closed.
C8_HeldCloseOrError ==
  (lastOp.op \in {"close", "error"} /\ lastOp.held = lastOp.arg)
    => /\ status = "disconnected"
       /\ wsRef = Null
       /\ readyState[lastOp.arg] = "CLOSED"

\* the held socket failed while it was still connecting
C8_Witness ==
  /\ lastOp.op = "error" /\ lastOp.held = lastOp.arg /\ lastOp.pst = "connecting"
  /\ status = "disconnected" /\ readyState[lastOp.arg] = "CLOSED"

\* C9: disconnect() closes the held socket if there is one, leaves the status
\* Disconnected and the handle empty, throws nothing, and changes nothing when
\* the manager is already Disconnected (so a second call changes nothing).
C9_DisconnectIdempotent ==
  /\ [](lastOp.op = "disconnect" =>
          /\ status = "disconnected"
          /\ wsRef = Null
          /\ lastOp.held # Null => readyState[lastOp.held] \in {"CLOSING", "CLOSED"}
          /\ "disconnect" \notin thrown)
  /\ [][(lastOp'.op = "disconnect" /\ status = "disconnected")
          => UNCHANGED <<wsRef, status, readyState, sockUrl, nSock, wire, sendLog, thrown>>]_vars

\* disconnect() was called when already Disconnected, after an earlier call had
\* closed the held socket
C9_Witness ==
  /\ lastOp.op = "disconnect" /\ lastOp.pst = "disconnected" /\ lastOp.held = Null
  /\ \E s \in SockIds : readyState[s] = "CLOSING"
  /\ status = "disconnected" /\ wsRef = Null

\* C26: the status is connected only while the manager holds an open socket,
\* connecting only while it holds a socket that has not opened yet, and
\* disconnected only while it holds no socket.
C26_StatusMatchesHandle ==
  /\ status = "connected" => (wsRef # Null /\ readyState[wsRef] = "OPEN")
  /\ status = "connecting" => (wsRef # Null /\ readyState[wsRef] = "CONNECTING")
  /\ status = "disconnected" => wsRef = Null

\* C27: the status becomes connected only by the open event of the socket the
\* manager holds, and only from connecting.
C27_ConnectedOnlyByHeldOpen ==
  [][(status' = "connected" /\ status # "connected") =>
       /\ status = "connecting"
       /\ lastOp'.op = "open"
       /\ wsRef # Null /\ lastOp'.arg = wsRef]_vars

\* C25: with a consumer registered, every message event of the held socket
\* calls the consumer exactly once with the event's data, at once, and the
\* consumer's calls are in the order of the events.
C25_InboundInOrder ==
  /\ \A i \in 1..Len(arrived) :
       (onMessage /\ arrived[i].held) =>
         /\ Cardinality({j \in 1..Len(consumed) : consumed[j].n = i}) = 1
         /\ \A j \in 1..Len(consumed) :
              consumed[j].n = i => consumed[j].data = arrived[i].data
  /\ \A j, k \in 1..Len(consumed) : j < k => consumed[j].n < consumed[k].n

\* two different messages on two held sockets, one before and one after a
\* reconnect, both consumed
C25_Witness ==
  /\ onMessage /\ Len(arrived) = 2 /\ Len(consumed) = 2
  /\ arrived[1].held /\ arrived[2].held
  /\ arrived[1].sock # arrived[2].sock
  /\ arrived[1].data # arrived[2].data

\* -------------------------------------------------- Broadcast Relay: properties
\* the entries of message k in the inbox of connection c
Got(c, k) == SelectSeq(inbox[c], LAMBDA e : e.id = k)

\* C2: each inbound message is delivered, with its payload unchanged, exactly
\* once to every other open member of the set, and to nobody else (never to
\* its sender).
C2_FanOutVerbatim ==
  \A k \in 1..Len(relayLog) : \A c \in Conns :
    IF c \in relayLog[k].open
    THEN Len(Got(c, k)) = 1 /\ Got(c, k)[1].frame.bytes = relayLog[k].frame.bytes
    ELSE Got(c, k) = <<>>

\* C10: when a member of the set other than the sender is no longer open while
\* a message is broadcast, the message is still delivered exactly once to every
\* other open recipient, and the member that is not open is skipped.
C10_ClosedRecipientIsolated ==
  \A k \in 1..Len(relayLog) :
    LET m == relayLog[k]
    IN  (\E b \in m.set \ {m.from} : b \notin m.open)
          => /\ \A c \in m.open : Len(Got(c, k)) = 1 /\ Got(c, k)[1].from = m.from
             /\ \A b \in Conns \ m.open : Got(b, k) = <<>>

\* connection 1 sent while 2, earlier in the set than 3, was closing: 3 got it
C10_Witness ==
  /\ Len(relayLog) = 1
  /\ relayLog[1].from = 1 /\ relayLog[1].set = {1, 2, 3} /\ relayLog[1].open = {3}
  /\ Len(inbox[3]) = 1 /\ inbox[2] = <<>> /\ inbox[1] = <<>>

C12_PerSenderOrder ==
  \A c \in Conns : \A i, j \in 1..Len(inbox[c]) :
    (i < j /\ inbox[c][i].from = inbox[c][j].from)
      => inbox[c][i].id < inbox[c][j].id

\* connection 2 got two different messages of connection 1, first one first
C12_Witness ==
  /\ Len(inbox[2]) = 2
  /\ inbox[2][1].from = 1 /\ inbox[2][2].from = 1
  /\ inbox[2][1].id = 1 /\ inbox[2][2].id = 2
  /\ inbox[2][1].frame # inbox[2][2].frame

\* C28: every broadcast iterates over a consistent set: each member it sees
\* was accepted and had no close or error event before the message, the set
\* holds no member twice, and the message went exactly once to each member
\* that was open and is not the sender, whatever lifecycle events of other
\* connections came before or after.
C28_BroadcastSeesConsistentSet ==
  /\ Len(clients) = Cardinality(Members(clients))
  /\ \A k \in 1..Len(relayLog) :
       /\ \A c \in relayLog[k].set :
            /\ connState[c] # "NONE"
            /\ removedAt[c] = Never \/ removedAt[c] >= k
       /\ relayLog[k].open \subseteq relayLog[k].set
       /\ \A c \in Conns :
            Len(Got(c, k)) = IF c \in relayLog[k].open THEN 1 ELSE 0

\* connection 1 was closed and connection 2 had started closing when 3 sent:
\* the broadcast saw 2 and 3, delivered to nobody, and then 2 was removed
C28_Witness ==
  /\ Len(relayLog) = 1
  /\ relayLog[1].from = 3 /\ relayLog[1].set = {2, 3} /\ relayLog[1].open = {}
  /\ removedAt[1] = 0 /\ connState[1] = "CLOSED"
  /\ removedAt[2] = 1 /\ clients = <<3>>
  /\ inbox[1] = <<>> /\ inbox[2] = <<>>

Zero == [pitch |-> 0, fire |-> 0, connected |-> FALSE]

\* C3: a read of key k at time n returns the stored sample with connected:true
\* if and only if an entry for k exists and n - writtenAt <= 2000 ms; otherwise
\* it returns the zero sample with connected:false, swept or not. The entry is
\* the one the last write to k made.
C3_FreshnessRule ==
  lastReq.op = "GET" =>
    LET e == store[lastReq.key]
        p == puts[lastReq.key]
        r == lastReq.resp
    IN  /\ IF e # NoEntry /\ clock - e.timestamp <= 2000
           THEN r = [pitch |-> e.pitch, fire |-> e.fire, connected |-> TRUE]
           ELSE r = Zero
        /\ r.connected <=> (p # NoEntry /\ clock - p.at <= 2000)
        /\ r.connected =>
             /\ r.pitch = (IF p.pitch = Missing THEN 0 ELSE p.pitch[1])
             /\ r.fire = (IF p.fire = Missing THEN 0 ELSE p.fire[1])

\* a read 2001 ms after the write: the entry is still stored, the read reports
\* connected:false
C3_Witness ==
  /\ lastReq.op = "GET"
  /\ store[lastReq.key] # NoEntry
  /\ clock - store[lastReq.key].timestamp = 2001
  /\ lastReq.resp = Zero

\* C4: a put of a sample s (pitch, roll, fire) to key k followed at the same time
\* by a get of k returns the same pitch, roll and fire with connected:true.
C4_PutThenGet ==
  (lastReq.op = "GET" /\ lastReq.afterPut
     /\ puts[lastReq.key].pitch # Missing /\ puts[lastReq.key].fire # Missing)
   => LET p == puts[lastReq.key]
          r == lastReq.resp
      IN  /\ r.connected
          /\ r.pitch = p.pitch[1]
          /\ r.fire = p.fire[1]
          /\ p.roll # Missing => ("roll" \in DOMAIN r /\ r.roll = p.roll[1])

\* C13: right after a write handled at time n (the time its sweep reads), no
\* stored entry has n - timestamp > 5000 ms, and every key whose last write is
\* at most 5000 ms old still holds the entry of that write.
C13_Retention ==
  (lastReq.op = "POST" /\ lastReq.ok) =>
    \A k \in Keys :
      /\ store[k] # NoEntry => clock - store[k].timestamp <= 5000
      /\ (puts[k] # NoEntry /\ clock - puts[k].at <= 5000)
           => (store[k] # NoEntry /\ store[k].timestamp = puts[k].at)

\* "default" written once, then a write to "r1" 5001 ms later swept it
C13_Witness ==
  /\ lastReq.op = "POST" /\ lastReq.key = "r1"
  /\ puts["default"] # NoEntry /\ clock - puts["default"].at = 5001
  /\ store["default"] = NoEntry /\ store["r1"] # NoEntry

\* C14: every stored entry has its pitch, its fire and its timestamp from one
\* and the same write, the last one to its key, and a read that reports
\* connected:true returns the pitch and fire of that one entry.
C14_NoTornEntry ==
  /\ \A k \in Keys :
       store[k] # NoEntry =>
         /\ puts[k] # NoEntry
         /\ store[k] = [pitch |-> IF puts[k].pitch = Missing THEN 0 ELSE puts[k].pitch[1],
                        fire |-> IF puts[k].fire = Missing THEN 0 ELSE puts[k].fire[1],
                        timestamp |-> puts[k].at]
  /\ (lastReq.op = "GET" /\ lastReq.resp.connected) =>
       /\ lastReq.resp.pitch = store[lastReq.key].pitch
       /\ lastReq.resp.fire = store[lastReq.key].fire

\* two writes with different pitch, fire and time are stored, and "r1" was read
C14_Witness ==
  /\ store["default"] # NoEntry /\ store["r1"] # NoEntry
  /\ store["default"].pitch # store["r1"].pitch
  /\ store["default"].fire # store["r1"].fire
  /\ store["default"].timestamp # store["r1"].timestamp
  /\ lastReq.op = "GET" /\ lastReq.key = "r1" /\ lastReq.resp.connected

\* C15: a write request is accepted only if its body parses and carries both
\* pitch and fire; any other write request is answered with the client error
\* and changes no entry.
C15_MalformedWriteRejected ==
  /\ (lastReq.op = "POST" /\ lastReq.ok) =>
       /\ puts[lastReq.key].pitch # Missing
       /\ puts[lastReq.key].fire # Missing
  /\ (lastReq.op = "POST" /\ ~lastReq.ok) => lastReq.resp.status = 400

\* C24: a write that omits room and a read that omits the room parameter both
\* address the key "default": while the last write is one without a room and is
\* at most 2000 ms old, a read without a room and a read with room=default
\* return its sample with connected:true.
C24_DefaultRoom ==
  /\ (lastReq.op = "POST" /\ lastReq.ok /\ wrote.room = Absent)
       => lastReq.key = "default"
  /\ (lastReq.op = "GET" /\ asked \in {Absent, "default"}) =>
       /\ lastReq.key = "default"
       /\ (wrote # NoEntry /\ wrote.room = Absent /\ clock - wrote.at <= 2000)
            => lastReq.resp = [pitch |-> wrote.pitch, fire |-> wrote.fire,
                               connected |-> TRUE]

\* pitch 8 written without a room is read with room=default 2000 ms later
C24_Witness ==
  /\ lastReq.op = "GET" /\ asked = "default"
  /\ wrote # NoEntry /\ wrote.room = Absent /\ wrote.pitch = 8
  /\ clock - wrote.at = 2000
  /\ lastReq.resp.connected /\ lastReq.resp.pitch = 8

\* C30: a read changes no entry of the store: a step that handles a GET leaves
\* the entries, their samples and their timestamps as they were, and every step
\* that changes the store handles an accepted POST.
C30_ReadLeavesStore ==
  [][/\ lastReq'.op = "GET" => store' = store
     /\ store' # store => (lastReq'.op = "POST" /\ lastReq'.ok)]_vars

\* a read of an entry written 5001 ms before, which the next sweep will
\* remove: the read reports no data and the entry is still stored
C30_Witness ==
  /\ lastReq.op = "GET"
  /\ store[lastReq.key] # NoEntry
  /\ clock - store[lastReq.key].timestamp > RetainMs
  /\ lastReq.resp = Zero
  /\ puts[lastReq.key].at = store[lastReq.key].timestamp

\* C31: a write to key k changes the answer of a read for no other key: at
\* the time the write is done, a read of any other key answers what it would
\* have answered at that time without the write, although the sweep of the
\* write may have removed that key's entry.
C31_SweepUnobservable ==
  [][\A k \in Keys :
       (lastReq'.op # "POST" \/ lastReq'.key # k)
         => GetResponse(store'[k], clock') = GetResponse(store[k], clock')]_vars

\* a write to "default" swept the entry of "r1", written 5001 ms before
C31_Witness ==
  /\ lastReq.op = "POST" /\ lastReq.key = "default"
  /\ puts["r1"] # NoEntry /\ clock - puts["r1"].at = 5001
  /\ store["r1"] = NoEntry /\ store["default"] # NoEntry

\* ------------------------------------------------- Message codec: properties
\* C16: decoding a payload that has no pitch or no fire returns null, in the
\* tagged and in the untagged shape: a packet that decode returns has both.
C16_DecodeNeedsBothFields ==
  (cOp \in {"message", "decode"} /\ cPkt # NullPkt) =>
    (cPkt.pitch # Undefined /\ cPkt.fire # Undefined)

\* C17: decoding the encoded form of a sample gives the sample back, in both
\* shapes: its pitch, its fire, and roll 0 as the wire form carries no roll.
C17_RoundTrip ==
  cOp = "decode" =>
    /\ cPkt # NullPkt
    /\ cPkt.pitch = Num(cSent.pitch)
    /\ cPkt.fire = Num(cSent.fire)
    /\ "roll" \in DOMAIN cPkt
    /\ cPkt.roll = Num(0)

\* C18: no exception escapes the decoder, whatever the text, and when it
\* returns null the receiver keeps the pitch and fire it had.
C18_DecodeTotal ==
  cOp \in {"message", "decode"} =>
    /\ ~cThrew
    /\ cPkt = NullPkt => rx = rxBefore

\* a text that does not parse arrived after a sample: null, the sample is kept
C18_Witness ==
  /\ cOp = "message"
  /\ cText = <<"{", Q, "p", "i", "t", "c", "h", Q, ":">>
  /\ cPkt = NullPkt /\ ~cThrew
  /\ rx = [pitch |-> Num(70), fire |-> Num(10)] /\ rx = rxBefore

\* JSON.parse of every text of a run
Parsed == [data \in Texts |-> JsonParse(data)]

\* C33: a text whose value is an object with type "state" decodes to the
\* packet of its pitch and fire; any other object with both pitch and fire
\* decodes to the packet of its pitch and fire; every other text decodes to
\* null; a packet has the fields pitch and fire and no others, and the two
\* shapes of one sample decode to the same packet.
C33_DecodingPrecedence ==
  cOp \in {"message", "decode"} =>
    /\ IF HasKey(Parsed[cText], WType) /\ Field(Parsed[cText], WType) = Str(WState)
       THEN cPkt = [pitch |-> Field(Parsed[cText], WPitch),
                    fire |-> Field(Parsed[cText], WFire)]
       ELSE IF HasKey(Parsed[cText], WPitch) /\ HasKey(Parsed[cText], WFire)
       THEN cPkt = [pitch |-> Field(Parsed[cText], WPitch),
                    fire |-> Field(Parsed[cText], WFire)]
       ELSE cPkt = NullPkt
    /\ cPkt # NullPkt => DOMAIN cPkt = {"pitch", "fire"}
    /\ cOp = "decode" => cPkt = [pitch |-> Num(cSent.pitch), fire |-> Num(cSent.fire)]

\* a text with type "state" and fire but no pitch arrived: it is decoded as the
\* tagged shape, not rejected by the test of the untagged one
C33_Witness ==
  /\ cOp = "message"
  /\ cText = Stringify(<<[key |-> WType, val |-> Str(WState)],
                         [key |-> WFire, val |-> Num(10)]>>)
  /\ cPkt = [pitch |-> Undefined, fire |-> Num(10)]

\* ------------------------------------------ Send and poll timers: properties
\* C19: each timer has at most one request in flight at any time.
C19_OneInFlight == pollFlight <= 1 /\ sendFlight <= 1

\* C20: when a poll is answered with connected:false, the page's connected
\* flag is false and the pitch and fire it shows and aims with are those of
\* the zero sample, not the sample it had before.
C20_StaleIsVisible ==
  (lastPoll.kind = "answered" /\ ~lastPoll.data.connected) =>
    /\ ~pc.connected
    /\ pc.displayPitch = 0 /\ pc.fire = 0
    /\ pc.rawPitch = 0 /\ pc.fireRef = 0

\* the page showed pitch 7 and fire 1 as connected, then a poll said connected:false
C20_Witness ==
  /\ lastPoll.kind = "answered" /\ ~lastPoll.data.connected
  /\ lastPoll.before.connected
  /\ lastPoll.before.displayPitch = 7 /\ lastPoll.before.fire = 1
  /\ ~pc.connected /\ pc.displayPitch = 0

\* C21: no exception leaves a timer callback; after a failed request the
\* connected flag of that page is false; and a request that settles, failed or
\* not, leaves its timer running, so the next tick starts a new request.
C21_FailedTickRetries ==
  /\ [](/\ ~unhandled
        /\ pollFails > 0 => ~pc.connected
        /\ sendFails > 0 => ~mobConnected)
  /\ [][/\ pollFlight' < pollFlight => pcMounted' = pcMounted
        /\ sendFlight' < sendFlight => mobMounted' = mobMounted]_vars

\* two polls and two POSTs in a row failed and each timer has a new request out
C21_Witness ==
  /\ pollFails = 2 /\ pollFlight = 1 /\ pcMounted /\ ~pc.connected
  /\ sendFails = 2 /\ sendFlight = 1 /\ mobMounted /\ ~mobConnected
  /\ ~unhandled

\* C32: the sample the PC page shows is never replaced by the answer of a
\* poll issued earlier, and the entry of the store is never replaced by the
\* body of a send issued earlier.
C32_NeverBackwards == [][shown' >= shown /\ stored' >= stored]_vars

\* --------------------------------------------------- Low-pass filter: properties
\* C22: the first output of a low-pass filter is its first input.
C22_FirstOutputIsFirstInput == fCalls = 1 => fValue = fIn

\* C23: every output lies between the value before the call and the input: it
\* is at least as close to the input as the value before, and not beyond it.
C23_TowardInputNoOvershoot ==
  fCalls > 0 =>
    /\ (fIn - fValue) * (fIn - fBefore) >= 0
    /\ Abs(fIn - fValue) <= Abs(fIn - fBefore)

\* the third call in a row with input 10: the value rose and is still below 10
C23_Witness ==
  /\ fRun = 3 /\ fCalls = 3 /\ fIn = 640
  /\ 0 < fBefore /\ fBefore < fValue /\ fValue < fIn

\* --------------------------------------------------- Adaptive filter: properties
\* C34: every update of the adaptive filter uses a dt of at least 0.001 s,
\* also when the timestamp is equal to or before the last one, and both
\* smoothing coefficients of the update are strictly between 0 and 1.
C34_DtClamped ==
  (eCalls > 0 /\ eLast # NoCall /\ ~eLast.seeded) =>
    /\ eLast.dt >= 10
    /\ 0 < eLast.nd /\ eLast.nd < eLast.nd + AlphaDen
    /\ 0 < eLast.nx /\ eLast.nx < eLast.nx + AlphaDen

\* an update with a timestamp before the last one used dt = 0.001 s
C34_Witness ==
  /\ eLast # NoCall /\ ~eLast.seeded
  /\ eLast.dt = 10
  /\ euro.lastTime = <<0>>
  /\ eLast.in = 5 /\ eLast.out # 5

\* C35: after reset() the filter is as a new one: the next call returns its
\* input, and from then on the filter and its output are those of a filter
\* created at the reset and given the same calls.
C35_ResetIsFresh ==
  twin # NoTwin =>
    /\ euro = twin
    /\ (eLast # NoCall /\ eLast.seeded) => eLast.out = eLast.in

\* two calls after a reset that followed an update with a derivative
C35_Witness ==
  /\ twin # NoTwin /\ eCalls = 3
  /\ eLast # NoCall /\ ~eLast.seeded
  /\ euro.dx # 0 /\ eLast.out # eLast.in

\* ------------------------------------------------------ Send loop: properties
\* C36: in the WebSocket sender a send timer exists exactly while the page is
\* mounted and its status is "connected"; the timer is the one the page holds
\* in sendTimerRef, there is never more than one, and it has never fired
\* under another status or after the unmount.
C36_TimerWhileConnected ==
  /\ Cardinality(loop.intervals) <= 1
  /\ loop.intervals = IF loop.sendTimerRef = NoTimer THEN {} ELSE {loop.sendTimerRef}
  /\ loop.intervals # {} <=> (loop.wsMounted /\ loop.rendered = "connected")
  /\ loop.ticked \subseteq {<<"connected", TRUE>>}

\* the status came back to "connected" after leaving it: the second timer runs
\* alone and has fired
C36_Witness ==
  /\ loop.rendered = "connected" /\ loop.wsMounted
  /\ loop.nIntervals = 2 /\ loop.intervals = {2}
  /\ loop.ticked # {}

\* --------------------------------------------------- Sensor ranges: properties
\* C37: every pitch a sender dispatches is within [-60, 60] degrees, every
\* roll within [-45, 45] (tilt page) or [-50, 50] (gyro page), and the yaw
\* accumulator is within [-50, 50], after any sequence of sensor events.
C37_DispatchedInRange ==
  /\ Abs(aim.yawAccumulator) <= 50
  /\ Abs(aim.pitchRef) <= 60 * (IF aim.kind = "tilt" THEN One ELSE 1)
  /\ aim.sent # NoBody =>
       /\ Abs(aim.sent.pitch) <= 60 * aim.sent.per
       /\ aim.kind = "tilt" => Abs(aim.sent.roll) <= 45 * aim.sent.per
       /\ aim.kind = "gyro" => Abs(aim.sent.roll) <= 50 * aim.sent.per

\* the gyro page dispatched a pitch at the upper limit and a roll from an
\* accumulator at its lower limit
C37_Witness ==
  /\ aim.kind = "gyro" /\ aim.sent # NoBody
  /\ aim.sent.pitch = 6000 /\ aim.yawAccumulator = 0 - 50 /\ aim.sent.roll = 0 - 5000

====
